---- MODULE Spec2Model ----
(***************************************************************************)
(* The rendering engine of asciime: the useAny2Ascii hook                  *)
(* (src/src/hooks/useAny2Ascii.ts) as a state machine.                     *)
(*                                                                         *)
(* One hook instance is modelled.  Its refs and React state are the        *)
(* fields of the record `hook`; the media element, the props and the       *)
(* browser's queues are the other variables.  Every handler of the hook    *)
(* is an operator from a hook record to a hook record, translated from its *)
(* code, and every action of Next applies the handlers that one browser    *)
(* task runs (an event dispatch, an animation frame, a React commit).      *)
(*                                                                         *)
(* GPU objects are named by the initialization attempt that created them:  *)
(* [kind |-> "program", gen |-> 2] is the program created by the second    *)
(* attempt.  A ref holds the attempt number of the object it points to,    *)
(* 0 for null.                                                             *)
(***************************************************************************)
EXTENDS Integers, Sequences, FiniteSets, TLC

\* ------------------------------------------------------------------ bounds
\* A handler may initialize while fewer than MaxInits attempts got past the
\* readiness guards (a commit that initializes twice can end one above it).
MaxInits == 2
\* Animation-frame requests outstanding at once.
MaxPending == 2
\* Media events queued and not yet dispatched.
MaxEvents == 1

\* Largest blend percentage evaluated (the documented range ends at 100).
MaxPercent == 100

\* Largest media width and height, and largest column count, evaluated.
MaxDim == 6
MaxCols == 5

\* Pieces a source string is put together from.
MaxParts == 3

\* Largest container width, in px, evaluated.
MaxWidth == 12

\* Longest time, in ms, between two ticks.
MaxGap == 1000

\* ------------------------------------------------------------------ state
VARIABLES
  mediaType,       \* option mediaType: "video" | "image"
  mounted,         \* the hook's effects are set up
  events,          \* media events queued for dispatch (play, pause, ended)
  uniformSetters,  \* uniformSettersRef.current: id -> callback
  features,        \* the registrations the consumer's feature hooks make
  calc,            \* one evaluation of a pure function of the engine or of
                   \* the component: which function, its inputs, its result
  hook             \* refs, state and memoized closures of the hook instance:
                   \*   mediaType     the mediaType its closures captured
                   \*   frameStale    the renderFrame that the current initWebGL
                   \*                 closure calls captured values of colored,
                   \*                 blend and highlight older than the props
                   \*   domRefs       canvas, container and media refs attached
                   \*   video, image  the elements behind videoRef and imageRef:
                   \*                 readyState, videoWidth, paused, ended;
                   \*                 complete, naturalWidth
                   \*   glRef .. uniformLocationsRef, animationRef,
                   \*   needsMipmapUpdate, isReady, isPlaying   as in the code
                   \*   canvas, dimensions   the attempt that last set them
                   \*   pending       the outstanding animation-frame requests,
                   \*                 each with whether the render closure it
                   \*                 runs captured values older than the props,
                   \*                 and the mediaType it captured
                   \*   gen, live     attempts so far, GPU objects not deleted
                   \*   inits, draws, cancelled, commit   what the last
                   \*                 step did: the results of its initWebGL
                   \*                 calls, its draw calls, the requests it
                   \*                 cancelled, the props its commit changed
                   \*   control       the control the last step called: play,
                   \*                 pause or toggle
                   \*   tick          how the tick the last step ran ended:
                   \*                 "nosession", "noelement", "paused" for
                   \*                 its early returns, "frame" for a frame
                   \*   tickDrawn     a tick of a video source drew since
                   \*                 the latest initialization that got past
                   \*                 the readiness guards
                   \*   everRegistered   a contributor was registered at
                   \*                 some time
                   \*   replaced      the last step registered a callback
                   \*                 under an id that held another one: the
                   \*                 id, the new callback, the map before
                   \*   overflow      the step needed more than MaxPending
                   \*                 requests (never set in a reachable state)

vars == <<mediaType, mounted, events, uniformSetters, features, hook, calc>>

Ids       == {"mouse", "ripple"}
Callbacks == {"cbA", "cbB"}
\* The registrations of a consumer with the mouse effect enabled.
MouseFeature == {<<"mouse", "cbA">>}
\* The registrations of a consumer whose mouse effect registers again with a
\* new callback when its options change, and whose ripple effect is enabled.
RegistryFeatures == {<<"mouse", "cbA">>, <<"mouse", "cbB">>, <<"ripple", "cbA">>}
NoSetter  == "none"
NoTick    == [none |-> TRUE]
NoReplace == [none |-> TRUE]
NoCalc    == [fn |-> "none"]
NoOut     == [none |-> TRUE]

\* What the environment decides in one initialization: everything succeeds,
\* the canvas yields no context, the fragment shader does not compile (the
\* vertex shader did), or the program does not link.
Outcomes == {"ok", "nogl", "nofs", "nolink"}

Gens == 0..(MaxInits + 1)

\* ------------------------------------------------------------------ media
\* initWebGL's readiness guards (lines 159-164), canvas and container being
\* attached exactly while the hook is mounted.
MediaReady(h) ==
  /\ h.domRefs
  /\ h.mediaType = "video" => h.video.videoWidth # 0
  /\ h.mediaType = "image" => (h.image.naturalWidth # 0 /\ h.image.complete)

\* The guard of the config effect and of the resize observer.
MediaLoaded(h) ==
  /\ h.domRefs
  /\ IF h.mediaType = "video" THEN h.video.readyState >= 1 ELSE h.image.complete

\* The callbacks currently registered.
RegisteredCallbacks ==
  {uniformSetters[i] : i \in {j \in Ids : uniformSetters[j] # NoSetter}}

RegistrySize == Cardinality({j \in Ids : uniformSetters[j] # NoSetter})

\* A slip: a second registration under an id keeps the first callback.
SetSetter_KeepFirst(m, id, setter) ==
  IF m[id] # NoSetter THEN m ELSE [m EXCEPT ![id] = setter]

\* uniformSettersRef.current.set(id, setter) on the map m (line 95).
SetSetter(m, id, setter) == [m EXCEPT ![id] = setter]

\* A slip: unregistering leaves the entry in the map.
DeleteSetter_Keep(m, id) == m

\* uniformSettersRef.current.delete(id) on the map m (line 101).
DeleteSetter(m, id) == [m EXCEPT ![id] = NoSetter]

\* The order in which a frame visits the entries of the map.  The code
\* visits them in insertion order, which the map m does not record; the
\* order between distinct ids is immaterial to what is checked.
IdOrder == <<"mouse", "ripple">>

IsEntry(i) == uniformSetters[i] # NoSetter

\* The calls of `for (const setter of uniformSettersRef.current.values())`:
\* one per entry of the map.
SetterCalls ==
  LET ids == SelectSeq(IdOrder, IsEntry)
  IN  [k \in 1..Len(ids) |->
         [op |-> "setter", id |-> ids[k], setter |-> uniformSetters[ids[k]]]]

\* The engine's own per-frame uniform writes (lines 335-338, 398-401).
ScalarWrites ==
  <<[op |-> "u_colored"], [op |-> "u_blend"],
    [op |-> "u_highlight"], [op |-> "u_brightness"]>>

\* ------------------------------------------------------------------ rAF
PendingIds(h) == {i \in 1..MaxPending : h.pending[i] # NoTick}
FreeIds(h)    == (1..MaxPending) \ PendingIds(h)

Min(S) == CHOOSE x \in S : \A y \in S : x <= y

\* requestAnimationFrame(render) followed by the store into animationRef.
\* c: the scheduled render closure captured values older than the props.
\* With MaxPending requests outstanding the model cannot name another one:
\* overflow marks the step, and no action takes such a step.
RequestAnimationFrame(h, c) ==
  IF FreeIds(h) = {} THEN [h EXCEPT !.overflow = TRUE]
  ELSE LET id == Min(FreeIds(h))
       IN  [h EXCEPT !.pending[id] = [stale |-> c, mediaType |-> h.mediaType],
                     !.animationRef = id]

\* cancelAnimationFrame(animationRef.current).  animationRef is 0 when the
\* handle it holds names no outstanding request (initially, after the
\* request fired, after it was cancelled), which makes the call a no-op.
CancelAnimationFrame(h) ==
  IF h.animationRef = 0 THEN h
  ELSE [h EXCEPT !.pending[h.animationRef] = NoTick,
                 !.animationRef = 0,
                 !.cancelled = h.cancelled + 1]

\* ------------------------------------------------------------------ GPU
Obj(k, g) == [kind |-> k, gen |-> g]

Create(h, k, g) == [h EXCEPT !.live = h.live \cup {Obj(k, g)}]
Delete(h, k, g) == [h EXCEPT !.live = h.live \ {Obj(k, g)}]

\* compileShader(gl, source, type): a live shader object, or null with
\* nothing left behind.
CompileShader(h, k, g, ok) == IF ok THEN Create(h, k, g) ELSE h

\* createProgram(gl, vs, fs): a live program, or null with nothing left
\* behind.  The two shaders stay as they are.
CreateProgram(h, g, ok) == IF ok THEN Create(h, "program", g) ELSE h

CreateFullscreenQuad(h, g) == Create(h, "buffer", g)
CreateVideoTexture(h, g)   == Create(h, "videoTexture", g)
CreateAsciiAtlas(h, g)     == Create(h, "atlas", g)

\* The objects a draw reads are all live.
DrawsOnLive(h) ==
  /\ Obj("program", h.programRef) \in h.live
  /\ Obj("videoTexture", h.videoTextureRef) \in h.live
  /\ Obj("atlas", h.atlasTextureRef) \in h.live

\* A slip: the contributors run after the draw call.
Draw_SettersLast(h, by, c, mip) ==
  [h EXCEPT !.draws = Append(h.draws,
     [by |-> by, stale |-> c, mipmap |-> mip, first |-> ~h.tickDrawn,
      setters |-> RegisteredCallbacks, live |-> DrawsOnLive(h),
      ops |-> ScalarWrites \o <<[op |-> "drawArrays"]>> \o SetterCalls])]

\* The tail of a frame (lines 334-346, 397-409): the scalar uniform writes,
\* the contributors, then gl.drawArrays; with what the draw read, appended
\* to the step's record.  mip: the frame generated mipmaps; first: no tick
\* of a video source drew since the latest initialization.
Draw(h, by, c, mip) ==
  [h EXCEPT !.draws = Append(h.draws,
     [by |-> by, stale |-> c, mipmap |-> mip, first |-> ~h.tickDrawn,
      setters |-> RegisteredCallbacks, live |-> DrawsOnLive(h),
      ops |-> ScalarWrites \o SetterCalls \o <<[op |-> "drawArrays"]>>])]

\* ------------------------------------------------------------------ renderFrame
\* The single-frame render of an image (lines 372-410).  c: its closure
\* captured values older than the props.
RenderFrame(h, c) ==
  IF \/ ~h.glRef
     \/ ~(h.domRefs /\ h.mediaType = "image")      \* imageRef.current is null
     \/ h.programRef = 0
     \/ h.uniformLocationsRef = 0
  THEN h
  ELSE LET mip == h.needsMipmapUpdate
           h1  == [h EXCEPT !.needsMipmapUpdate = FALSE]
       IN  Draw(h1, "renderFrame", c, mip)

\* ------------------------------------------------------------------ initWebGL
LogInit(h, r) == [h EXCEPT !.inits = Append(h.inits, r)]

\* A return of false after the readiness guards.
InitFailed(h, r) == LogInit(h, r)

\* initWebGL past its readiness guards (lines 166-287) under the
\* environment's outcome o.  "nogl" fails the context request only while the
\* canvas has no context yet: a canvas that has one returns it again.
InitSession(h, o) ==
  LET g  == h.gen + 1
      h1 == [h EXCEPT !.gen = g,
                      !.tickDrawn = FALSE,
                      !.needsMipmapUpdate = TRUE,
                      !.dimensions = g,
                      !.canvas = g]
  IN
  IF o = "nogl" /\ ~h.glRef THEN InitFailed(h1, "nogl")
  ELSE
    LET h2 == [h1 EXCEPT !.glRef = TRUE]
        h3 == CompileShader(h2, "vertexShader", g, TRUE)
        h4 == CompileShader(h3, "fragmentShader", g, o # "nofs")
    IN
    IF o = "nofs" THEN InitFailed(h4, "noshader")
    ELSE
      LET h5 == CreateProgram(h4, g, o # "nolink") IN
      IF o = "nolink" THEN InitFailed(h5, "nolink")
      ELSE
        LET h6 == CreateFullscreenQuad([h5 EXCEPT !.programRef = g], g)
            h7 == IF h6.videoTextureRef = 0
                  THEN CreateVideoTexture([h6 EXCEPT !.videoTextureRef = g], g)
                  ELSE h6
            h8 == [h7 EXCEPT !.needsMipmapUpdate = (h.mediaType = "video")]
            h9 == CreateAsciiAtlas([h8 EXCEPT !.atlasTextureRef = g], g)
            hA == [h9 EXCEPT !.uniformLocationsRef = g,
                             !.isReady = TRUE]
            hB == IF h.mediaType = "image" THEN RenderFrame(hA, hA.frameStale)
                  ELSE hA
        IN  LogInit(hB, "ok")

\* A slip the readiness guards rule out: the mipmap flag raised before them.
InitWebGL_FlagFirst(h, o) ==
  IF ~MediaReady(h)
  THEN LogInit([h EXCEPT !.needsMipmapUpdate = TRUE], "notready")
  ELSE InitSession(h, o)

\* initWebGL (lines 150-288): the readiness guards, then the session.
InitWebGL(h, o) ==
  IF ~MediaReady(h) THEN LogInit(h, "notready") ELSE InitSession(h, o)

\* ------------------------------------------------------------------ render
\* One tick of the loop (lines 299-369): the closure runs (c: it captured
\* values older than the props) and, unless it returns early, draws and
\* requests the next tick, which runs the same closure.
Returned(h, why) == [h EXCEPT !.tick = why]

\* A slip: the tick generates mipmaps and leaves the flag raised.
Frame_KeepFlag(h, c) ==
  LET mip == h.mediaType = "video" /\ h.needsMipmapUpdate
      h2  == Draw(h, "render", c, mip)
      h3  == [h2 EXCEPT !.tick = "frame",
                        !.tickDrawn = @ \/ h.mediaType = "video"]
  IN  RequestAnimationFrame(h3, c)

\* The frame of a tick (lines 315-368): the upload, the mipmaps of a video
\* whose flag is raised, the uniforms, the contributors and the draw, the
\* statistics, and the request for the next tick.
Frame(h, c) ==
  LET mip == h.mediaType = "video" /\ h.needsMipmapUpdate
      h1  == IF mip THEN [h EXCEPT !.needsMipmapUpdate = FALSE] ELSE h
      h2  == Draw(h1, "render", c, mip)
      h3  == [h2 EXCEPT !.tick = "frame",
                        !.tickDrawn = @ \/ h.mediaType = "video"]
  IN  RequestAnimationFrame(h3, c)

\* A slip: the tick does not look at the state of the video.
Render_NoPauseCheck(h, c) ==
  IF ~h.glRef \/ h.programRef = 0 \/ h.uniformLocationsRef = 0
  THEN Returned(h, "nosession")
  ELSE IF ~h.domRefs THEN Returned(h, "noelement")
  ELSE Frame(h, c)

Render(h, c) ==
  IF ~h.glRef \/ h.programRef = 0 \/ h.uniformLocationsRef = 0
  THEN Returned(h, "nosession")                                 \* line 306
  ELSE IF ~h.domRefs THEN Returned(h, "noelement")              \* line 310
  ELSE IF h.mediaType = "video" /\ (h.video.paused \/ h.video.ended)
  THEN Returned(h, "paused")                                    \* line 313
  ELSE Frame(h, c)

\* ------------------------------------------------------------------ handlers
\* The video effect's handlers (lines 419-436).  The effect is set up again
\* whenever render changes, so its handlers schedule the current render.
HandleLoadedMetadata(h, o) == InitWebGL(h, o)

HandlePlay(h) ==
  RequestAnimationFrame([h EXCEPT !.isPlaying = TRUE], FALSE)

\* A slip: the pause handler forgets the pending request.
HandlePause_NoCancel(h) == [h EXCEPT !.isPlaying = FALSE]

HandlePause(h) == CancelAnimationFrame([h EXCEPT !.isPlaying = FALSE])

HandleEnded(h) == CancelAnimationFrame([h EXCEPT !.isPlaying = FALSE])

\* A slip: the load handler starts the loop whatever the registry holds.
HandleImageLoad_AlwaysLoop(h, o) ==
  RequestAnimationFrame(InitWebGL(h, o), FALSE)

\* The image effect's load handler (lines 464-470).
HandleImageLoad(h, o) ==
  LET h1 == InitWebGL(h, o)
  IN  IF RegistrySize > 0 THEN RequestAnimationFrame(h1, FALSE) ELSE h1

\* ------------------------------------------------------------------ controls
\* videoRef.current: the consumer renders a <video> for a video source only.
VideoRef(h) == h.domRefs /\ h.mediaType = "video"

\* video.play() and video.pause() on the element, on st = the hook and the
\* queue of media events: the paused flag flips at once and the event is
\* queued; a call that changes nothing queues nothing.
ElementPlay(st) ==
  IF ~st.hook.video.paused THEN st
  ELSE [hook   |-> [st.hook EXCEPT !.video.paused = FALSE, !.video.ended = FALSE],
        events |-> Append(st.events, "play")]

ElementPause(st) ==
  IF st.hook.video.paused THEN st
  ELSE [hook   |-> [st.hook EXCEPT !.video.paused = TRUE],
        events |-> Append(st.events, "pause")]

\* A slip: play() reaches for an element whatever the media type.
Play_AnyElement(st) == ElementPlay(st)

\* play, pause and toggle (lines 542-558).
Play(st) == IF VideoRef(st.hook) THEN ElementPlay(st) ELSE st

Pause(st) == IF VideoRef(st.hook) THEN ElementPause(st) ELSE st

Toggle(st) ==
  IF ~VideoRef(st.hook) THEN st
  ELSE IF st.hook.video.paused THEN ElementPlay(st) ELSE ElementPause(st)

\* ------------------------------------------------------------------ effects
\* Body and cleanup of the video effect (lines 413-455).
VideoEffect(h, o) ==
  IF h.mediaType # "video" \/ ~h.domRefs THEN h
  ELSE IF h.video.readyState >= 1 THEN HandleLoadedMetadata(h, o) ELSE h

VideoEffectCleanup(h) ==
  IF h.mediaType # "video" THEN h ELSE CancelAnimationFrame(h)

\* Body and cleanup of the image effect (lines 458-483).
ImageEffect(h, o) ==
  IF h.mediaType # "image" \/ ~h.domRefs THEN h
  ELSE IF h.image.complete /\ h.image.naturalWidth # 0 THEN HandleImageLoad(h, o)
       ELSE h

ImageEffectCleanup(h) ==
  IF h.mediaType # "image" THEN h ELSE CancelAnimationFrame(h)

\* The effect that reinitializes when initWebGL changes (lines 486-496).
ConfigEffect(h, o) == IF MediaLoaded(h) THEN InitWebGL(h, o) ELSE h

\* A slip: the observer's callback does nothing.
ResizeCallback_Ignore(h, o) == h

\* The ResizeObserver's callback (lines 510-517).
ResizeCallback(h, o) == IF MediaLoaded(h) THEN InitWebGL(h, o) ELSE h

\* Cleanup of the effect that owns the GPU objects (lines 529-539).  The
\* refs keep pointing at what was deleted.
WebGLCleanup(h) ==
  LET h1 == IF ~h.glRef THEN h
            ELSE LET a == IF h.videoTextureRef # 0
                          THEN Delete(h, "videoTexture", h.videoTextureRef)
                          ELSE h
                     b == IF a.atlasTextureRef # 0
                          THEN Delete(a, "atlas", a.atlasTextureRef)
                          ELSE a
                 IN  IF b.programRef # 0
                     THEN Delete(b, "program", b.programRef)
                     ELSE b
  IN  CancelAnimationFrame(h1)

\* The effects with initWebGL or render among their dependencies, cleaned up
\* and run again by one commit: cleanups first, then bodies, in the order of
\* the hook.  withConfig: initWebGL itself changed.
RerunEffects(h, o1, o2, withConfig) ==
  LET c1 == ImageEffectCleanup(VideoEffectCleanup(h))
      s1 == ImageEffect(VideoEffect(c1, o1), o1)
  IN  IF withConfig THEN ConfigEffect(s1, o2) ELSE s1

\* Every effect's body, at mount.
MountEffects(h, o1, o2) ==
  ConfigEffect(ImageEffect(VideoEffect(h, o1), o1), o2)

\* Every effect's cleanup, at unmount.
UnmountEffects(h) ==
  WebGLCleanup(ImageEffectCleanup(VideoEffectCleanup(h)))

\* ------------------------------------------------------------------ steps
\* A step starts with an empty record of what it did.
Begin(h) ==
  [h EXCEPT !.inits = <<>>, !.draws = <<>>, !.cancelled = 0, !.commit = "none",
            !.replaced = NoReplace, !.control = "none", !.tick = "none"]

\* A step the bounds allow.
Within(h) == (h.gen # hook.gen => hook.gen < MaxInits) /\ ~h.overflow

SessionUsable(h) ==
  h.glRef /\ h.programRef # 0 /\ h.uniformLocationsRef # 0

InitWith(f) ==
  /\ mediaType \in {"video", "image"}
  /\ mounted = FALSE
  /\ events = <<>>
  /\ uniformSetters = [i \in Ids |-> NoSetter]
  /\ features = f
  /\ hook = [mediaType |-> mediaType,
             frameStale |-> FALSE,
             domRefs |-> FALSE,
             video |-> [readyState |-> 0, videoWidth |-> 0,
                        paused |-> TRUE, ended |-> FALSE],
             image |-> [complete |-> FALSE, naturalWidth |-> 0],
             glRef |-> FALSE,
             programRef |-> 0,
             videoTextureRef |-> 0,
             atlasTextureRef |-> 0,
             uniformLocationsRef |-> 0,
             animationRef |-> 0,
             needsMipmapUpdate |-> TRUE,
             canvas |-> 0,
             dimensions |-> 0,
             isReady |-> FALSE,
             isPlaying |-> FALSE,
             pending |-> [i \in 1..MaxPending |-> NoTick],
             gen |-> 0,
             live |-> {},
             overflow |-> FALSE,
             everRegistered |-> FALSE,
             replaced |-> NoReplace,
             control |-> "none",
             tick |-> "none",
             tickDrawn |-> FALSE,
             inits |-> <<>>, draws |-> <<>>, cancelled |-> 0,
             commit |-> "none"]

Init == InitWith(MouseFeature) /\ calc = NoCalc

\* The outcomes the environment can give an initialization run on h: one
\* the readiness guards stop consumes none, and a canvas that already has a
\* context cannot refuse it.
Env(h) ==
  IF ~MediaReady(h) THEN {"ok"}
  ELSE IF h.glRef THEN Outcomes \ {"nogl"}
  ELSE Outcomes

\* ------------------------------------------------------------------ actions
\* First mount, or the effects run again on the same instance after their
\* cleanup (the refs and state of the instance persist).
Mount ==
  /\ ~mounted
  /\ LET h0 == [Begin(hook) EXCEPT !.domRefs = TRUE]
     IN  \E o1 \in Env(h0), o2 \in Env(h0) :
           LET h == MountEffects(h0, o1, o2)
           IN  Within(h) /\ hook' = h
  /\ mounted' = TRUE
  /\ UNCHANGED <<mediaType, events, uniformSetters, features, calc>>

\* Unmount: every cleanup runs and React detaches the DOM refs.
Unmount ==
  /\ mounted
  /\ hook' = [UnmountEffects(Begin(hook)) EXCEPT !.domRefs = FALSE]
  /\ mounted' = FALSE
  /\ UNCHANGED <<mediaType, events, uniformSetters, features, calc>>

\* The video's metadata arrives (videoWidth stays 0 for a source without a
\* video track) and loadedmetadata is dispatched.
LoadedMetadata ==
  /\ mediaType = "video"
  /\ hook.video.readyState = 0
  /\ \E w \in {0, 1} :
       LET h0 == [Begin(hook) EXCEPT !.video.readyState = 1,
                                     !.video.videoWidth = w]
       IN  \E o \in Env(h0) :
             LET h == IF mounted THEN HandleLoadedMetadata(h0, o) ELSE h0
             IN  Within(h) /\ hook' = h
  /\ UNCHANGED <<mediaType, mounted, events, uniformSetters, features, calc>>

\* video.play(): paused becomes false at once, the play event is queued.
PlayCall ==
  /\ mediaType = "video"
  /\ hook.video.paused
  /\ Len(events) < MaxEvents
  /\ hook' = [Begin(hook) EXCEPT !.video.paused = FALSE, !.video.ended = FALSE]
  /\ events' = Append(events, "play")
  /\ UNCHANGED <<mediaType, mounted, uniformSetters, features, calc>>

\* video.pause(): paused becomes true at once, the pause event is queued.
PauseCall ==
  /\ mediaType = "video"
  /\ ~hook.video.paused
  /\ Len(events) < MaxEvents
  /\ hook' = [Begin(hook) EXCEPT !.video.paused = TRUE]
  /\ events' = Append(events, "pause")
  /\ UNCHANGED <<mediaType, mounted, uniformSetters, features, calc>>

\* Playback reaches the end of a video that does not loop.
ReachEnd ==
  /\ mediaType = "video"
  /\ hook.video.readyState >= 1
  /\ ~hook.video.paused /\ ~hook.video.ended
  /\ Len(events) < MaxEvents
  /\ hook' = [Begin(hook) EXCEPT !.video.ended = TRUE]
  /\ events' = Append(events, "ended")
  /\ UNCHANGED <<mediaType, mounted, uniformSetters, features, calc>>

\* The next queued media event is dispatched to the listeners the video
\* effect attached.  The task that fires ended first pauses the element.
Dispatch ==
  /\ events # <<>>
  /\ LET ev == Head(events)
         h0 == IF ev = "ended" THEN [Begin(hook) EXCEPT !.video.paused = TRUE]
               ELSE Begin(hook)
         h  == IF ~mounted THEN h0
               ELSE IF ev = "play" THEN HandlePlay(h0)
               ELSE IF ev = "pause" THEN HandlePause(h0)
               ELSE HandleEnded(h0)
     IN  Within(h) /\ hook' = h
  /\ events' = Tail(events)
  /\ UNCHANGED <<mediaType, mounted, uniformSetters, features, calc>>

\* The browser runs one outstanding animation-frame request.  A closure
\* that captured the other media type reads the ref of an element that is no
\* longer rendered and returns (line 306 or 310).
Tick ==
  \E id \in PendingIds(hook) :
    LET c  == hook.pending[id].stale
        h0 == [Begin(hook) EXCEPT
                 !.pending[id] = NoTick,
                 !.animationRef = IF @ = id THEN 0 ELSE @]
        h  == IF hook.pending[id].mediaType = hook.mediaType
              THEN Render(h0, c) ELSE Returned(h0, "noelement")
    IN  /\ Within(h)
        /\ hook' = h
        /\ UNCHANGED <<mediaType, mounted, events, uniformSetters, features, calc>>

\* The ResizeObserver reports the container (also once after observe()).
Resize ==
  /\ mounted
  /\ \E o \in Env(hook) :
       LET h == ResizeCallback(Begin(hook), o)
       IN  Within(h) /\ hook' = h
  /\ UNCHANGED <<mediaType, mounted, events, uniformSetters, features, calc>>

\* Every closure that captured colored, blend and highlight before a commit
\* changed them now holds older values.
Outdated(h) ==
  [h EXCEPT !.frameStale = TRUE,
            !.pending = [i \in 1..MaxPending |->
                           IF h.pending[i] = NoTick THEN NoTick
                           ELSE [h.pending[i] EXCEPT !.stale = TRUE]]]

\* A commit that changes colored, blend or highlight: render and renderFrame
\* are new closures, initWebGL is not.
ConfigChangeFrame ==
  /\ mounted
  /\ \E o \in Env(hook) :
       LET h0 == [Outdated(Begin(hook)) EXCEPT !.commit = "frame"]
           h  == RerunEffects(h0, o, o, FALSE)
       IN  Within(h) /\ hook' = h
  /\ UNCHANGED <<mediaType, mounted, events, uniformSetters, features, calc>>

\* A commit that changes numColumns, brightness, dither or charset:
\* initWebGL is a new closure and calls the current renderFrame.
ConfigChangeLayout ==
  /\ mounted
  /\ \E o1 \in Env(hook), o2 \in Env(hook) :
       LET h0 == [Begin(hook) EXCEPT !.frameStale = FALSE, !.commit = "layout"]
           h  == RerunEffects(h0, o1, o2, TRUE)
       IN  Within(h) /\ hook' = h
  /\ UNCHANGED <<mediaType, mounted, events, uniformSetters, features, calc>>

\* The consumer calls play(), pause() or toggle() of the hook.
Control ==
  \E f \in {"play", "pause", "toggle"} :
    LET st0 == [hook   |-> [Begin(hook) EXCEPT !.control = f],
                events |-> events]
        st  == IF f = "play" THEN Play(st0)
               ELSE IF f = "pause" THEN Pause(st0)
               ELSE Toggle(st0)
    IN  /\ Len(st.events) <= MaxEvents
        /\ hook' = st.hook
        /\ events' = st.events
        /\ UNCHANGED <<mediaType, mounted, uniformSetters, features, calc>>

OtherType(t) == IF t = "video" THEN "image" ELSE "video"

\* A commit that changes the mediaType option.  The consumer renders the
\* element of the new type in place of the old one (a new <img> can be
\* complete at once, from the cache), the events queued for the old element
\* reach no listener, every closure is new, and every effect that depends on
\* initWebGL, render or mediaType is cleaned up by its old closure and run
\* again by its new one.
MediaTypeChange ==
  /\ mounted
  /\ \E cached \in IF mediaType = "video" THEN BOOLEAN ELSE {FALSE} :
       LET c1 == ImageEffectCleanup(VideoEffectCleanup(Begin(hook)))
           h0 == [Outdated(c1) EXCEPT
                    !.mediaType = OtherType(mediaType),
                    !.frameStale = FALSE,
                    !.commit = "mediaType",
                    !.video = [readyState |-> 0, videoWidth |-> 0,
                               paused |-> TRUE, ended |-> FALSE],
                    !.image = IF cached
                              THEN [complete |-> TRUE, naturalWidth |-> 1]
                              ELSE [complete |-> FALSE, naturalWidth |-> 0]]
       IN  \E o1 \in Env(h0), o2 \in Env(h0) :
             LET h == MountEffects(h0, o1, o2)
             IN  Within(h) /\ hook' = h
  /\ mediaType' = OtherType(mediaType)
  /\ events' = <<>>
  /\ UNCHANGED <<mounted, uniformSetters, features, calc>>

\* The image finishes loading and load is dispatched in the same task.
ImageLoad ==
  /\ mediaType = "image"
  /\ ~hook.image.complete
  /\ LET h0 == [Begin(hook) EXCEPT !.image.complete = TRUE,
                                     !.image.naturalWidth = 1]
     IN  \E o \in Env(h0) :
           LET h == IF mounted THEN HandleImageLoad(h0, o) ELSE h0
           IN  Within(h) /\ hook' = h
  /\ UNCHANGED <<mediaType, mounted, events, uniformSetters, features, calc>>

\* The image fails to load: complete, with no natural size, and no load event.
ImageError ==
  /\ mediaType = "image"
  /\ ~hook.image.complete
  /\ hook' = [Begin(hook) EXCEPT !.image.complete = TRUE,
                                 !.image.naturalWidth = 0]
  /\ UNCHANGED <<mediaType, mounted, events, uniformSetters, features, calc>>

\* The src of the image changes: the element starts loading again.
ImageSrcChange ==
  /\ mediaType = "image"
  /\ hook.image.complete
  /\ hook' = [Begin(hook) EXCEPT !.image.complete = FALSE,
                                 !.image.naturalWidth = 0]
  /\ UNCHANGED <<mediaType, mounted, events, uniformSetters, features, calc>>

\* registerUniformSetter(id, setter) (lines 93-98).
RegisterUniformSetter(id, setter) ==
  /\ uniformSetters' = SetSetter(uniformSetters, id, setter)
  /\ hook' = [Begin(hook) EXCEPT
                !.everRegistered = TRUE,
                !.replaced = IF uniformSetters[id] \in {NoSetter, setter}
                             THEN NoReplace
                             ELSE [id |-> id, setter |-> setter,
                                   before |-> uniformSetters]]
  /\ UNCHANGED <<mediaType, mounted, events, features, calc>>

\* unregisterUniformSetter(id) (lines 100-102).
UnregisterUniformSetter(id) ==
  /\ uniformSetters' = DeleteSetter(uniformSetters, id)
  /\ hook' = Begin(hook)
  /\ UNCHANGED <<mediaType, mounted, events, features, calc>>

Register   == \E r \in features : RegisterUniformSetter(r[1], r[2])
Unregister == \E id \in Ids : UnregisterUniformSetter(id)

\* What happens to a hook of either media type.
HookStep ==
  \/ Mount
  \/ Unmount
  \/ Tick
  \/ Resize
  \/ ConfigChangeFrame
  \/ ConfigChangeLayout
  \/ Register
  \/ Unregister

\* What happens to a <video> element.
VideoStep ==
  \/ LoadedMetadata
  \/ PlayCall
  \/ PauseCall
  \/ ReachEnd
  \/ Dispatch

\* What happens to an <img> element.
ImageStep ==
  \/ ImageLoad
  \/ ImageError
  \/ ImageSrcChange

Next == HookStep \/ VideoStep \/ ImageStep \/ MediaTypeChange \/ Control

Spec == Init /\ [][Next]_vars

\* The hook on a video source, and on an image source.
InitVideo == Init /\ mediaType = "video"
InitImage == Init /\ mediaType = "image"
NextVideo == HookStep \/ VideoStep
NextImage == HookStep \/ ImageStep
SpecVideo == InitVideo /\ [][NextVideo]_vars
SpecImage == InitImage /\ [][NextImage]_vars

\* The hook on a video source in a browser that runs every outstanding
\* animation-frame request and dispatches every queued media event.
SpecVideoLive == SpecVideo /\ WF_vars(Tick) /\ WF_vars(Dispatch)

\* The hook on a source of either type, the type never changing.
NextSource == HookStep \/ VideoStep \/ ImageStep
SpecSource == Init /\ [][NextSource]_vars

\* The hook on an image source whose consumer calls the playback controls.
NextControls == HookStep \/ ImageStep \/ Control
SpecControls == InitImage /\ [][NextControls]_vars

\* The hook of a consumer without interactive effects that changes layout
\* options and the media type.
LayoutStep ==
  \/ Mount
  \/ Unmount
  \/ Tick
  \/ Resize
  \/ ConfigChangeLayout
  \/ MediaTypeChange

NextLayout == LayoutStep \/ VideoStep \/ ImageStep
SpecLayout == Init /\ [][NextLayout]_vars

\* The hook on an image source with several contributors.
InitRegistry ==
  InitWith(RegistryFeatures) /\ mediaType = "image" /\ calc = NoCalc
SpecRegistry == InitRegistry /\ [][NextImage]_vars

\* ------------------------------------------------------------------ uniforms
\* The variables of the hook, idle, while a pure function is evaluated.
Idle == InitWith(MouseFeature) /\ mediaType = "video"

IdleStep == UNCHANGED <<mediaType, mounted, events, uniformSetters, features, hook>>

RECURSIVE Gcd(_, _)
Gcd(a, b) == IF b = 0 THEN a ELSE Gcd(b, a % b)

\* The number n / d (d > 0) in lowest terms.
Ratio(n, d) ==
  LET g == Gcd(n, d) IN [num |-> n \div g, den |-> d \div g]

\* A slip: the percentage is written as it is.
Normalize_Raw(x) == Ratio(x, 1)

\* `blend / 100` and `highlight / 100` (lines 336-337, 399-400).
Normalize(x) == Ratio(x, 100)

\* `dither === "bayer" ? 1 : dither === "random" ? 2 : 0` (line 266).
DitherMode(dither) ==
  IF dither = "bayer" THEN 1 ELSE IF dither = "random" THEN 2 ELSE 0

DitherNames == {"none", "bayer", "random", "ordered"}

\* The options whose encoding is evaluated.
InitUniforms ==
  /\ Idle
  /\ \E b \in 0..MaxPercent, hl \in {0, 50, 100, MaxPercent}, d \in DitherNames :
       calc = [fn |-> "uniforms",
               in |-> [blend |-> b, highlight |-> hl, dither |-> d],
               out |-> NoOut]

\* initWebGL writes u_ditherMode, and the frame writes u_blend, u_highlight.
WriteUniforms ==
  /\ calc.fn = "uniforms"
  /\ calc.out = NoOut
  /\ calc' = [calc EXCEPT !.out =
                [u_blend      |-> Normalize(calc.in.blend),
                 u_highlight  |-> Normalize(calc.in.highlight),
                 u_ditherMode |-> DitherMode(calc.in.dither)]]
  /\ IdleStep

SpecUniforms == InitUniforms /\ [][WriteUniforms]_vars

\* ------------------------------------------------------------------ grid
\* The character cell aspect ratio, width to height.
CellAspect == [num |-> 1, den |-> 2]

\* The ideal row count cols * (h / w) / CellAspect as the fraction num / den.
IdealRows(w, h, cols) ==
  [num |-> cols * h * CellAspect.den, den |-> w * CellAspect.num]

\* round(n / d) for n >= 0, d > 0: the nearest integer, halves upwards.
Round(n, d) == (2 * n + d) \div (2 * d)

\* A slip: the row count is not clamped.
ComputeGrid_NoClamp(w, h, cols) ==
  LET f == IdealRows(w, h, cols)
  IN  [cols |-> cols, rows |-> Round(f.num, f.den)]

\* calculateGridDimensions(mediaWidth, mediaHeight, cols): the columns asked
\* for, and the rounded ideal row count, at least 1.
ComputeGrid(w, h, cols) ==
  LET f == IdealRows(w, h, cols)
      r == Round(f.num, f.den)
  IN  [cols |-> cols, rows |-> IF r < 1 THEN 1 ELSE r]

InitGrid ==
  /\ Idle
  /\ \E w \in 1..MaxDim, h \in 1..MaxDim, c \in 1..MaxCols :
       calc = [fn |-> "grid",
               in |-> [mediaWidth |-> w, mediaHeight |-> h, cols |-> c],
               out |-> NoOut]

\* initWebGL computes the grid (lines 182-186).
CalculateGrid ==
  /\ calc.fn = "grid"
  /\ calc.out = NoOut
  /\ calc' = [calc EXCEPT !.out =
                ComputeGrid(calc.in.mediaWidth, calc.in.mediaHeight, calc.in.cols)]
  /\ IdleStep

SpecGrid == InitGrid /\ [][CalculateGrid]_vars

\* ------------------------------------------------------------------ dimensions
\* `fontSize || 10` (line 81) and useState({ cols: 80, rows: 24 }) (line 69).
DefaultFontSize   == 10
InitialDimensions == [cols |-> 80, rows |-> 24]

\* calculatedFontSize when numColumns is not given (lines 79-81); 0 stands
\* for an option that is not given.
CalculatedFontSize(fontSize) == IF fontSize # 0 THEN fontSize ELSE DefaultFontSize

\* finalCols (lines 171-173), CHAR_WIDTH_RATIO being the cell aspect ratio:
\* numColumns || Math.floor(currentWidth / (calculatedFontSize * CHAR_WIDTH_RATIO)).
FinalCols(numColumns, currentWidth, fontSize) ==
  IF numColumns # 0 THEN numColumns
  ELSE (currentWidth * CellAspect.den)
         \div (CalculatedFontSize(fontSize) * CellAspect.num)

\* The options, the container and the media of one initialization; the
\* hook exposes its initial dimensions.
InitDimensions ==
  /\ Idle
  /\ \E n \in 0..MaxCols, cw \in 0..MaxWidth, fs \in {0, 4, DefaultFontSize},
        w \in 1..MaxDim, h \in 1..MaxDim :
       calc = [fn |-> "dimensions",
               in |-> [numColumns |-> n, clientWidth |-> cw, fontSize |-> fs,
                       mediaWidth |-> w, mediaHeight |-> h],
               set |-> FALSE,
               out |-> InitialDimensions]

\* initWebGL computes the grid and exposes it (lines 169-187).
SetDimensions ==
  /\ calc.fn = "dimensions"
  /\ ~calc.set
  /\ calc' = [calc EXCEPT
                !.set = TRUE,
                !.out = ComputeGrid(calc.in.mediaWidth, calc.in.mediaHeight,
                          FinalCols(calc.in.numColumns, calc.in.clientWidth,
                                    calc.in.fontSize))]
  /\ IdleStep

SpecDimensions == InitDimensions /\ [][SetDimensions]_vars

\* ------------------------------------------------------------------ media type
\* A string is the sequence of its characters.
UpperCase == <<"A", "B", "C", "D", "E", "F", "G", "H", "I", "J", "K", "L", "M",
               "N", "O", "P", "Q", "R", "S", "T", "U", "V", "W", "X", "Y", "Z">>
LowerCase == <<"a", "b", "c", "d", "e", "f", "g", "h", "i", "j", "k", "l", "m",
               "n", "o", "p", "q", "r", "s", "t", "u", "v", "w", "x", "y", "z">>

\* String.prototype.toLowerCase.
LowerChar(c) ==
  IF \E k \in 1..Len(UpperCase) : UpperCase[k] = c
  THEN LowerCase[CHOOSE k \in 1..Len(UpperCase) : UpperCase[k] = c]
  ELSE c

ToLowerCase(str) == [k \in 1..Len(str) |-> LowerChar(str[k])]

Places(str, c) == {k \in 1..Len(str) : str[k] = c}

\* str.split(c)[0]: what precedes the first c, the whole string without one.
SplitFirst(str, c) ==
  IF Places(str, c) = {} THEN str
  ELSE SubSeq(str, 1, Min(Places(str, c)) - 1)

\* str.split(c).pop(): what follows the last c, the whole string without one.
SplitPop(str, c) ==
  IF Places(str, c) = {} THEN str
  ELSE LET last == CHOOSE k \in Places(str, c) : \A l \in Places(str, c) : l <= k
       IN  SubSeq(str, last + 1, Len(str))

ImageExtensions ==
  {<<"j", "p", "g">>, <<"j", "p", "e", "g">>, <<"p", "n", "g">>,
   <<"w", "e", "b", "p">>, <<"b", "m", "p">>, <<"s", "v", "g">>}

\* detectMediaType(src) (part_001 lines 14-30).
DetectMediaType(src) ==
  IF src = <<>> THEN "video"
  ELSE LET urlParts  == SplitFirst(src, "?")
           extension == ToLowerCase(SplitPop(urlParts, "."))
       IN  IF extension \in ImageExtensions THEN "image" ELSE "video"

\* AsciiMe: mediaType || detectMediaType(src) (part_002 lines 37-40), with
\* "undefined" for a mediaType the consumer did not give.
ResolvedMediaType(given, src) ==
  IF given # "undefined" THEN given ELSE DetectMediaType(src)

\* AsciiMe: the enabled option of useAsciiAudio (part_002 line 70).
AudioEnabled(audioEffect, resolved) == audioEffect > 0 /\ resolved = "video"

\* What sources are put together from: nothing, a name, the separators, the
\* image extensions, one of them in capitals, and .gif's.
Pieces ==
  ImageExtensions \cup
  {<<>>, <<"a">>, <<".">>, <<"?">>, <<"P", "N", "G">>, <<"g", "i", "f">>}

RECURSIVE Sources(_)
Sources(n) ==
  IF n = 0 THEN {<<>>}
  ELSE {a \o b : a \in Pieces, b \in Sources(n - 1)}

InitMedia ==
  /\ Idle
  /\ \E src \in Sources(MaxParts), given \in {"undefined", "video", "image"},
        a \in {0, 50} :
       calc = [fn |-> "media",
               in |-> [src |-> src, mediaType |-> given, audioEffect |-> a],
               out |-> NoOut]

\* AsciiMe resolves the media type and the audio option of one render.
ResolveMedia ==
  /\ calc.fn = "media"
  /\ calc.out = NoOut
  /\ calc' = [calc EXCEPT !.out =
                LET r == ResolvedMediaType(calc.in.mediaType, calc.in.src)
                IN  [detected     |-> DetectMediaType(calc.in.src),
                     resolved     |-> r,
                     audioEnabled |-> AudioEnabled(calc.in.audioEffect, r)]]
  /\ IdleStep

SpecMedia == InitMedia /\ [][ResolveMedia]_vars

\* ------------------------------------------------------------------ statistics
\* `frameTimesRef.current.length > 60` (line 352) and
\* `now - lastFpsTimeRef.current >= 1000` (line 356).
FrameTimesLimit == 60
StatsInterval   == 1000

NoEmit == [none |-> TRUE]

\* The time between two ticks, and the time one frame takes, in ms.
Gaps       == {100, 250, MaxGap}
FrameCosts == {0, 2}

RECURSIVE Sum(_)
Sum(q) == IF q = <<>> THEN 0 ELSE Head(q) + Sum(Tail(q))

\* A slip: every tick emits.
Due_Always(elapsed) == TRUE

\* `now - lastFpsTimeRef.current >= 1000`.
Due(elapsed) == elapsed >= StatsInterval

\* A slip: the history is never trimmed.
Push_NoShift(times, t) == Append(times, t)

\* frameTimesRef.current.push(t), then shift() above the limit (lines 351-352).
Push(times, t) ==
  LET q == Append(times, t)
  IN  IF Len(q) > FrameTimesLimit THEN Tail(q) ELSE q

\* The statistics refs and state at the creation of the hook (lines 64-66,
\* 70), for a source whose frames take c ms.  elapsed is the time since
\* lastFpsTimeRef.current; ticks and ms count the frames and the time since
\* the previous emission (since the creation before the first one).
InitStats ==
  /\ Idle
  /\ \E c \in FrameCosts :
       calc = [fn |-> "stats", in |-> [cost |-> c],
               frameCount |-> 0, frameTimes |-> <<>>, elapsed |-> 0,
               stats |-> [fps |-> 0, frameTime |-> Ratio(0, 1)],
               ticks |-> 0, ms |-> 0, emit |-> NoEmit]

\* The statistics of one drawn tick (lines 348-365), gap ms after the
\* previous one.
TrackPerformance ==
  /\ calc.fn = "stats"
  /\ \E gap \in Gaps :
       LET count   == calc.frameCount + 1
           times   == Push(calc.frameTimes, calc.in.cost)
           elapsed == calc.elapsed + gap
       IN  IF Due(elapsed)
           THEN calc' = [calc EXCEPT
                  !.frameTimes = times,
                  !.stats = [fps |-> count,
                             frameTime |-> Ratio(Sum(times), Len(times))],
                  !.frameCount = 0,
                  !.elapsed = 0,
                  !.emit = [ms |-> calc.ms + gap, ticks |-> calc.ticks + 1],
                  !.ticks = 0, !.ms = 0]
           ELSE calc' = [calc EXCEPT
                  !.frameTimes = times,
                  !.frameCount = count,
                  !.elapsed = elapsed,
                  !.emit = NoEmit,
                  !.ticks = @ + 1, !.ms = @ + gap]
  /\ IdleStep

SpecStats == InitStats /\ [][TrackPerformance]_vars

\* ------------------------------------------------------------------ claims
Range(q) == {q[i] : i \in 1..Len(q)}

\* Number of successful initializations among the results q.
NumOk(q) == Cardinality({i \in 1..Len(q) : q[i] = "ok"})

\* The latest attempt that got past the readiness guards returned false.
LastAttemptFailed(h) == h.gen # 0 /\ h.programRef # h.gen

\* The engine state initWebGL can write.
Engine(h) ==
  <<h.glRef, h.programRef, h.videoTextureRef, h.atlasTextureRef,
    h.uniformLocationsRef, h.needsMipmapUpdate, h.canvas, h.dimensions,
    h.isReady, h.live, h.gen>>

LiveOfKind(h, k) == {x \in h.live : x.kind = k}

\* C1: for a video source, whenever the last media event handled is a pause
\* or an ended (isPlaying is false from then until the next play is handled,
\* and before the first play), no animation-frame request is outstanding and
\* the step just taken issued no draw call.
C1_NoTickAfterPause ==
  (mediaType = "video" /\ ~hook.isPlaying) =>
    (PendingIds(hook) = {} /\ hook.draws = <<>>)

\* A pause or ended handler has just cancelled the pending tick of a loop
\* that was drawing with an initialized session.
C1_Witness ==
  /\ mediaType = "video" /\ mounted
  /\ ~hook.isPlaying /\ hook.cancelled = 1
  /\ SessionUsable(hook) /\ ~hook.needsMipmapUpdate
  /\ PendingIds(hook) = {}

\* C2: for a video source with an initialized session, a loop that is
\* running (play handled, a tick pending) keeps a tick pending across every
\* step that is not a pause, an ended or an unmount, as long as the video
\* keeps playing.
C2_LoopKeepsRunning ==
  [][(/\ mediaType = "video"
      /\ mounted /\ mounted'
      /\ SessionUsable(hook)
      /\ hook.isPlaying /\ hook'.isPlaying
      /\ PendingIds(hook) # {}
      /\ ~hook.video.paused /\ ~hook.video.ended
      /\ ~hook'.video.paused /\ ~hook'.video.ended)
     => PendingIds(hook') # {}]_vars

\* C3: once the consumer has unmounted, no animation-frame request is
\* outstanding and no step issues a draw call.
C3_NoTickAfterUnmount ==
  ~mounted => (PendingIds(hook) = {} /\ hook.draws = <<>>)

\* C4: the session is completely absent, or every part of it was built by
\* one and the same initialization, which succeeded.
C4_SessionAtomic ==
  \/ /\ ~hook.glRef
     /\ hook.programRef = 0 /\ hook.videoTextureRef = 0
     /\ hook.atlasTextureRef = 0 /\ hook.uniformLocationsRef = 0
     /\ hook.canvas = 0 /\ hook.dimensions = 0
  \/ /\ hook.glRef
     /\ hook.programRef # 0
     /\ hook.videoTextureRef = hook.programRef
     /\ hook.atlasTextureRef = hook.programRef
     /\ hook.uniformLocationsRef = hook.programRef
     /\ hook.canvas = hook.programRef
     /\ hook.dimensions = hook.programRef

\* C5: at most one program, one atlas texture and one quad buffer are live.
C5_NoLeakOnReinit ==
  /\ Cardinality(LiveOfKind(hook, "program")) <= 1
  /\ Cardinality(LiveOfKind(hook, "atlas")) <= 1
  /\ Cardinality(LiveOfKind(hook, "buffer")) <= 1

\* C6: when the last initialization of a step returned false after the
\* readiness guards, nothing that attempt created is still live.
C6_FailedInitReleases ==
  (hook.inits # <<>> /\
   hook.inits[Len(hook.inits)] \in {"nogl", "noshader", "nolink"})
    => {x \in hook.live : x.gen = hook.gen} = {}

\* C7: isReady is true only if the latest initialization attempt succeeded.
C7_ReadyOnlyWhileComplete ==
  hook.isReady => (SessionUsable(hook) /\ ~LastAttemptFailed(hook))

\* C8: a step whose initWebGL calls were all stopped by the readiness guards
\* leaves the session refs, the mipmap flag, the canvas size, the exposed
\* dimensions, the ready flag and the GPU objects as they were.
C8_NotReadyInitIsNoOp ==
  [][("notready" \in Range(hook'.inits)) => Engine(hook') = Engine(hook)]_vars

\* initWebGL was called on a hook that holds a session while the media was
\* not ready (a source that failed to load after one that loaded).
C8_Witness ==
  /\ hook.inits # <<>> /\ hook.inits[1] = "notready"
  /\ hook.isReady /\ SessionUsable(hook)
  /\ ~hook.needsMipmapUpdate

\* C9: a commit that changes only colored, blend or highlight runs no
\* initialization past the readiness guards and cancels no tick.
C9_FrameConfigNoReinit ==
  hook.commit = "frame" =>
    (Range(hook.inits) \subseteq {"notready"} /\ hook.cancelled = 0)

C11_ImageLoopRuns ==
  (/\ mediaType = "image" /\ mounted
   /\ hook.isReady /\ SessionUsable(hook) /\ MediaReady(hook)
   /\ RegistrySize > 0)
    => PendingIds(hook) # {}

\* The setter calls of the frame d made for the id i.
CallsFor(d, i) ==
  {k \in 1..Len(d.ops) : d.ops[k].op = "setter" /\ d.ops[k].id = i}

\* The places of the operation o in the frame d.
PlacesOf(d, o) == {k \in 1..Len(d.ops) : d.ops[k].op = o}

\* Every setter call of every frame of the step is the call of an entry the
\* registry holds.
CallsOnlyEntries ==
  \A n \in 1..Len(hook.draws) :
    \A k \in PlacesOf(hook.draws[n], "setter") :
      uniformSetters[hook.draws[n].ops[k].id] = hook.draws[n].ops[k].setter

\* C12 as claimed: registering any id with any callback and then
\* unregistering that id gives back the registry as it was, and no frame
\* calls a callback the registry does not hold.
C12_RoundTripRestores ==
  /\ \A id \in Ids, s \in Callbacks :
       DeleteSetter(SetSetter(uniformSetters, id, s), id) = uniformSetters
  /\ CallsOnlyEntries

\* C12 as amended: registering an id and then unregistering it leaves no
\* entry for that id and every other entry as it was, which is the registry
\* as it was exactly when the id had no entry before; and no frame calls a
\* callback the registry does not hold.
C12_RoundTripFresh ==
  /\ \A id \in Ids, s \in Callbacks :
       LET m == DeleteSetter(SetSetter(uniformSetters, id, s), id)
       IN  /\ m[id] = NoSetter
           /\ \A j \in Ids \ {id} : m[j] = uniformSetters[j]
           /\ (m = uniformSetters) <=> (uniformSetters[id] = NoSetter)
  /\ CallsOnlyEntries

\* A loop that a contributor started drew a frame after the contributor was
\* unregistered: the frame called no setter.
C12_Witness ==
  /\ mediaType = "image" /\ mounted
  /\ hook.everRegistered /\ RegistrySize = 0
  /\ Len(hook.draws) = 1 /\ hook.draws[1].by = "render"
  /\ PlacesOf(hook.draws[1], "setter") = {}

\* C13: a registration under an id that held another callback leaves that
\* id with the new callback and every other id as it was; registering twice
\* is registering the second; and a frame calls, for each id, at most one
\* callback, the one the registry holds.
C13_RegisterReplaces ==
  /\ hook.replaced # NoReplace =>
       /\ uniformSetters[hook.replaced.id] = hook.replaced.setter
       /\ \A j \in Ids \ {hook.replaced.id} :
            uniformSetters[j] = hook.replaced.before[j]
  /\ \A id \in Ids, s1 \in Callbacks, s2 \in Callbacks :
       SetSetter(SetSetter(uniformSetters, id, s1), id, s2)
         = SetSetter(uniformSetters, id, s2)
  /\ \A n \in 1..Len(hook.draws), i \in Ids :
       Cardinality(CallsFor(hook.draws[n], i)) <= 1
  /\ CallsOnlyEntries

\* The mouse contributor registered a second callback while the ripple
\* contributor was registered and the loop was running.
C13_Witness ==
  /\ hook.replaced # NoReplace /\ hook.replaced.id = "mouse"
  /\ uniformSetters["ripple"] # NoSetter
  /\ mounted /\ SessionUsable(hook) /\ PendingIds(hook) # {}

\* C14: every frame of a tick and every single-shot render calls the
\* callback of each entry of the registry exactly once, and nothing else,
\* after the four scalar uniform writes and before its one draw call.
C14_SettersOncePerFrame ==
  \A n \in 1..Len(hook.draws) :
    LET d == hook.draws[n]
    IN  /\ \A i \in Ids :
             Cardinality(CallsFor(d, i)) = IF uniformSetters[i] # NoSetter THEN 1 ELSE 0
        /\ \A k \in PlacesOf(d, "setter") :
             d.ops[k].setter = uniformSetters[d.ops[k].id]
        /\ PlacesOf(d, "drawArrays") = {Len(d.ops)}
        /\ \A o \in {"u_colored", "u_blend", "u_highlight", "u_brightness"} :
             /\ Cardinality(PlacesOf(d, o)) = 1
             /\ \A k \in PlacesOf(d, o), l \in PlacesOf(d, "setter") : k < l

\* A tick drew a frame with two contributors registered.
C14_Witness ==
  /\ RegistrySize = 2
  /\ Len(hook.draws) = 1 /\ hook.draws[1].by = "render"
  /\ Cardinality(PlacesOf(hook.draws[1], "setter")) = 2

\* The step is one of the triggers of the lifecycle: a media-ready signal,
\* a container resize, or a commit that changes a layout option or the
\* media type.
Trigger ==
  LoadedMetadata \/ ImageLoad \/ Resize \/ ConfigChangeLayout \/ MediaTypeChange

\* Some initWebGL call of the step got past the readiness guards.
RanInit(h) == Range(h.inits) \ {"notready"} # {}

\* C15: a trigger that finds the hook mounted on ready media runs an
\* initialization past the readiness guards; a trigger that does not leaves
\* the session, the canvas size, the dimensions and the ready flag as they
\* were.
C15_TriggersReinit ==
  [][Trigger =>
       IF MediaReady(hook') THEN RanInit(hook')
       ELSE Engine(hook') = Engine(hook)]_vars

\* The media type changed to image with the new image complete at once, and
\* the commit initialized the session for it.
C15_Witness ==
  /\ mediaType = "image" /\ mounted
  /\ hook.commit = "mediaType"
  /\ MediaReady(hook) /\ NumOk(hook.inits) >= 1
  /\ hook.isReady /\ SessionUsable(hook)

\* C16: for an image source a call of play(), pause() or toggle() changes
\* nothing: not the pending ticks, the playing flag, the session or the
\* element, no media event is queued, and the registry is as it was.
C16_ControlsNoOpForImage ==
  [][(mediaType = "image" /\ Control) =>
       /\ hook' = [Begin(hook) EXCEPT !.control = hook'.control]
       /\ events' = events
       /\ uniformSetters' = uniformSetters]_vars

\* toggle() was called on a mounted image whose loop is running.
C16_Witness ==
  /\ mediaType = "image" /\ mounted
  /\ hook.control = "toggle"
  /\ hook.isReady /\ SessionUsable(hook)
  /\ PendingIds(hook) # {} /\ RegistrySize > 0

\* C17: the uniform written for blend and for highlight is the option
\* divided by 100 (50 gives 1/2, 100 gives 1, options in 0..100 give values
\* in 0..1), and u_ditherMode is 2 for "random", 1 for "bayer" and 0 for
\* every other name.
C17_UniformEncoding ==
  (calc.fn = "uniforms" /\ calc.out # NoOut) =>
    LET i == calc.in
        o == calc.out
    IN  /\ o.u_blend.num * 100 = i.blend * o.u_blend.den
        /\ o.u_highlight.num * 100 = i.highlight * o.u_highlight.den
        /\ i.blend = 50 => o.u_blend = [num |-> 1, den |-> 2]
        /\ i.highlight = 100 => o.u_highlight = [num |-> 1, den |-> 1]
        /\ i.blend <= 100 => (0 <= o.u_blend.num /\ o.u_blend.num <= o.u_blend.den)
        /\ i.highlight <= 100 =>
             (0 <= o.u_highlight.num /\ o.u_highlight.num <= o.u_highlight.den)
        /\ o.u_ditherMode = (CASE i.dither = "random" -> 2
                               [] i.dither = "bayer" -> 1
                               [] OTHER -> 0)

\* blend 50, highlight 100 and an unrecognized dither name were encoded.
C17_Witness ==
  /\ calc.fn = "uniforms" /\ calc.out # NoOut
  /\ calc.in.blend = 50 /\ calc.in.highlight = 100
  /\ calc.in.dither = "ordered"
  /\ calc.out.u_ditherMode = 0

\* C18: for positive media width, media height and column count the grid
\* has at least one row, the columns asked for, and a row count within 1 of
\* cols * (h / w) / CellAspect; evaluating again gives the same grid.
C18_GridWithinOne ==
  (calc.fn = "grid" /\ calc.out # NoOut) =>
    LET i == calc.in
        o == calc.out
        f == IdealRows(i.mediaWidth, i.mediaHeight, i.cols)
    IN  /\ o.rows >= 1
        /\ o.cols = i.cols
        /\ o.rows * f.den - f.num <= f.den
        /\ f.num - o.rows * f.den <= f.den
        /\ o = ComputeGrid(i.mediaWidth, i.mediaHeight, i.cols)

\* A wide, low source on one column: the ideal row count is below 1/2 and
\* the grid has one row.
C18_Witness ==
  /\ calc.fn = "grid" /\ calc.out # NoOut
  /\ calc.in.cols = 1
  /\ 4 * calc.in.mediaHeight < calc.in.mediaWidth
  /\ calc.out.rows = 1

\* The file extension of a source, in lower case: what follows the last
\* "." of the source without its query string; none (the empty string) for
\* a source without a ".".
FileExtension(src) ==
  LET path == SplitFirst(src, "?")
  IN  IF Places(path, ".") = {} THEN <<>>
      ELSE ToLowerCase(SplitPop(path, "."))

\* C19: detection gives "image" exactly for the sources whose file extension
\* is jpg, jpeg, png, webp, bmp or svg and "video" for every other source,
\* and a media type the consumer gives is the one used.
C19_DetectByExtension ==
  (calc.fn = "media" /\ calc.out # NoOut) =>
    /\ calc.out.detected =
         IF FileExtension(calc.in.src) \in ImageExtensions
         THEN "image" ELSE "video"
    /\ calc.out.resolved =
         IF calc.in.mediaType # "undefined" THEN calc.in.mediaType
         ELSE calc.out.detected

\* C20: for a source used as an image, and for a .gif source, the audio
\* feature is not enabled, whatever audioEffect is.
C20_NoAudioForImagesAndGifs ==
  (calc.fn = "media" /\ calc.out # NoOut) =>
    ((\/ calc.out.resolved = "image"
      \/ FileExtension(calc.in.src) = <<"g", "i", "f">>)
       => ~calc.out.audioEnabled)

\* C21: a tick of a video source generates mipmaps exactly when no tick drew
\* since the latest initialization; no frame of an image source, single-shot
\* or of the loop, generates mipmaps.
C21_MipmapPolicy ==
  \A n \in 1..Len(hook.draws) :
    LET d == hook.draws[n]
    IN  IF mediaType = "video"
        THEN d.by = "render" => (d.mipmap <=> d.first)
        ELSE ~d.mipmap

\* The first tick after a reinitialization of a playing video drew, and
\* generated mipmaps.
C21_Witness ==
  /\ mediaType = "video" /\ hook.gen >= 2
  /\ hook.tick = "frame" /\ Len(hook.draws) = 1
  /\ hook.draws[1].first /\ hook.draws[1].mipmap

\* C22: a tick that finds the video paused or ended only consumes its
\* request: no frame (upload, uniforms, contributors, draw, statistics), no
\* new request, and the session, the flags and the element as they were.
C22_PausedTickSkipped ==
  [][(Tick /\ mediaType = "video" /\ (hook.video.paused \/ hook.video.ended)) =>
       /\ hook'.draws = <<>>
       /\ hook'.tick # "frame"
       /\ \E id \in PendingIds(hook) :
            hook' = [Begin(hook) EXCEPT
                       !.pending[id] = NoTick,
                       !.animationRef = IF @ = id THEN 0 ELSE @,
                       !.tick = hook'.tick]]_vars

\* A tick of a running loop found the video paused, the pause event not yet
\* dispatched, and returned.
C22_Witness ==
  /\ mediaType = "video" /\ mounted
  /\ hook.tick = "paused"
  /\ hook.video.paused /\ hook.isPlaying /\ SessionUsable(hook)
  /\ events # <<>> /\ PendingIds(hook) = {}

\* C23: the frame-time history holds at most 60 samples; a tick emits a
\* snapshot only when at least 1000 ms passed since the previous emission,
\* the fps of the snapshot is the number of ticks drawn since the previous
\* emission, and the frame counter is 0 after the emission.
C23_FrameStatistics ==
  calc.fn = "stats" =>
    /\ Len(calc.frameTimes) <= 60
    /\ calc.emit # NoEmit =>
         /\ calc.emit.ms >= 1000
         /\ calc.stats.fps = calc.emit.ticks
         /\ calc.frameCount = 0
    /\ calc.emit = NoEmit => calc.frameCount = calc.ticks

\* A tick emitted a snapshot of ten frames, exactly 1000 ms after the
\* previous emission, with a full history.
C23_Witness ==
  /\ calc.fn = "stats" /\ calc.emit # NoEmit
  /\ calc.emit.ms = 1000 /\ calc.emit.ticks = 10
  /\ Len(calc.frameTimes) = 60

\* C24: the dimensions the hook exposes have at least one column and at
\* least one row, before and after an initialization, for every container
\* width and with the column count given or derived.
C24_DimensionsPositive ==
  calc.fn = "dimensions" => (calc.out.cols >= 1 /\ calc.out.rows >= 1)

\* C25: at most one animation-frame request is outstanding, and
\* animationRef holds its handle.
C25_SinglePendingTick ==
  PendingIds(hook) \subseteq {hook.animationRef}

\* C26: no frame of an image source, of a tick or single-shot, is drawn by
\* a closure that captured values of colored, blend or highlight older than
\* the props.
C26_ImageDrawsCurrent ==
  mediaType = "image" => \A n \in 1..Len(hook.draws) : ~hook.draws[n].stale

\* C27: the program, the media texture and the atlas texture that a tick
\* draws with are live.
C27_TickUsesLiveObjects ==
  \A n \in 1..Len(hook.draws) :
    hook.draws[n].by = "render" => hook.draws[n].live

\* The step just taken ended with a successful initialization, which built
\* the session g.
Reinitialized(g) ==
  /\ mounted /\ hook.programRef = g
  /\ hook.inits # <<>> /\ hook.inits[Len(hook.inits)] = "ok"

\* The step just taken drew with the session g.
DrewWith(g) == hook.draws # <<>> /\ hook.programRef = g

\* C28: every successful initialization is followed, in the same step or
\* later, by a draw with the session it built, unless the media stops being
\* ready, the hook is unmounted, or another initialization replaces the program.
C28_ReinitRepaints ==
  \A g \in Gens \ {0} :
    Reinitialized(g) ~>
      (DrewWith(g) \/ ~MediaReady(hook) \/ ~mounted \/ hook.programRef # g)

====
